---- MODULE Spec2Model ----
(***************************************************************************)
(* Halite match manager: the command line of manager/cli.py driving the    *)
(* Manager of manager/core.py.  One invocation of the command line loads   *)
(* the ledger from the store file, runs one command and saves.  The `run`  *)
(* command executes its matches on a pool of worker threads                *)
(* (multiprocessing.dummy.Pool), every worker calling Manager.add_game on  *)
(* the shared Manager.  manager.py is the script of the generation before: *)
(* its Database, its `add`, and its `run`, which executes the matches on    *)
(* worker processes that take them from one Queue and put the results on   *)
(* another.                                                                *)
(***************************************************************************)
EXTENDS Integers, Sequences, FiniteSets, TLC

\* ------------------------------------------------------------------ bounds
\* largest --threads of a modelled `run`
MaxThreads == 2
\* largest --matches of a modelled `run`
MaxMatches == 5
\* a modelled `run` that can be interrupted has threads * matches <= MaxLoad
MaxLoad == 4
\* a modelled `run` that is not interrupted has threads * matches <= MaxBatch
MaxBatch == 5
\* command line invocations in a row
MaxInvocations == 2
\* largest --matches of a modelled `run` of manager.py
MaxQueued == 2
\* largest --count of a modelled `run` whose selection is looked at
MaxCount == 3
\* largest number of --prioritize options of a modelled `run`
MaxPriority == 2
\* largest seed of a map: stands for 2**31 - 2
MaxSeed == 2

\* ------------------------------------------------------------- state
VARIABLES
    store,          \* the store file at --path: NoFile or the saved ledger
    path,           \* Manager._path: TRUE once the attribute is set
    bots,           \* Manager.bots: name -> Bot
    games,          \* Manager.games: the Games, in the order appended
    cmd,            \* the command of this invocation, with its options
    main,           \* position of the main thread
    invocations,    \* invocations of the command line so far
    matches_to_run, \* run: the generated Matches
    taskq,          \* run: the pool's task queue, chunks of match indices
    left,           \* run: chunks of pool.map not yet finished
    failed,         \* run: some chunk of pool.map raised
    completed,      \* run: the `completed` counter of the closure
    thread,         \* run: worker thread -> its position and locals
    runs,           \* history: match index -> calls of Match.run
    raised,         \* history: the matches whose Match.run raised
    intr,           \* history: what had happened when the interrupt arrived
    halite,         \* the engine at HALITEBIN: the answers it can give
    table,          \* bots: the rows of the table it prints
    loaded,         \* history: the store file as cli() has read it
    prev,           \* history: the command, the end and the loaded store of
                    \* the last invocation
    in_buffer,      \* manager.py, run_parallel_matches: the matches put on
                    \* in_queue that its feeder thread has yet to write
    in_queue,       \* manager.py, run_parallel_matches: the matches in the
                    \* pipe of in_queue
    out_queue,      \* manager.py, run_parallel_matches: the results that have
                    \* reached the pipe of the Queue
    processes,      \* manager.py, run_parallel_matches: worker process ->
                    \* its position, its task and the results it has put on
                    \* out_queue that its feeder thread has yet to write
    joining,        \* manager.py, run_parallel_matches: the process the
                    \* parent is joining
    counted,        \* manager.py, run_parallel_matches: its local `count`
    applied,        \* history: the results update_rankings was called with
    argv            \* history: match -> the --seed option of the command
                    \* Match.run_command built for it, NoSeed for none

\* the state of manager.py's run_parallel_matches
legacy == <<in_buffer, in_queue, out_queue, processes, joining, counted, applied>>

vars == <<store, path, bots, games, cmd, main, invocations, matches_to_run,
          taskq, left, failed, completed, thread, runs, raised, intr,
          halite, table, loaded, prev, legacy, argv>>

\* ------------------------------------------------------------- data
\* the store file does not exist
NoFile == [exists |-> FALSE, complete |-> FALSE, bots |-> <<>>, games |-> <<>>]
\* the store file just opened for writing: it exists and is empty
Truncated == [exists |-> TRUE, complete |-> FALSE, bots |-> <<>>, games |-> <<>>]
\* the store file holding the whole serialisation of a ledger
Stored(bs, gs) == [exists |-> TRUE, complete |-> TRUE, bots |-> bs, games |-> gs]
\* no interrupt has arrived
NoIntr == [seen |-> FALSE, finished |-> {}]
None == "None"
\* --count is not given: its value is None, which is no integer of
\* click.IntRange(1, 8)
NoCount == 0
\* --seed is not given: its value is None
NoSeed == -1

\* the registered names of the modelled ledgers
Names == {"a", "b"}

\* Bot.rating of a Bot that has not played: trueskill.Rating(mu=25.000, sigma=8.333)
DefaultRating == <<25, 8333>>

NewBot(command, rating) ==
    [command |-> command,
     rating |-> IF rating = None THEN DefaultRating ELSE rating,
     played |-> 0,
     won |-> 0]


\* a ledger holding the bots of S, none of which has played
FreshLedger(S) ==
    Stored([n \in S |-> NewBot("./" \o n, None)], <<>>)

RECURSIVE Perms(_)
\* the orders random.shuffle can leave the elements of S in
Perms(S) ==
    IF S = {} THEN {<<>>}
    ELSE UNION {{<<x>> \o p : p \in Perms(S \ {x})} : x \in S}

Range(s) == {s[i] : i \in DOMAIN s}

Max(x, y) == IF x >= y THEN x ELSE y
Min(x, y) == IF x <= y THEN x ELSE y

Prefix(s, n) == SubSeq(s, 1, Min(n, Len(s)))

\* the orders random.shuffle can leave the list s in
Shuffles(s) ==
    {[i \in 1..Len(s) |-> s[p[i]]] : p \in Perms(1..Len(s))}

\* Manager.generate_contestants, lines 267-268: the counts it can go on with
Counts(count) == IF count = NoCount THEN {2, 4} ELSE {count}

\* generate_contestants taking no notice of prioritize
GenerateContestantsOfAll(bs, count, prioritize) ==
    UNION {{Prefix(pool, c) : pool \in Perms(DOMAIN bs)} : c \in Counts(count)}

\* Manager.generate_contestants: the lists it can return
GenerateContestants(bs, count, prioritize) ==
    LET counts == IF count = NoCount THEN {2, 4} ELSE {count}
        Prioritized(c) ==
            UNION {Shuffles(prioritize \o Prefix(p, Max(0, c - Len(prioritize))))
                   : p \in Perms(DOMAIN bs \ Range(prioritize))}
        Pools(c) == IF Len(prioritize) > 0 THEN Prioritized(c) ELSE Perms(DOMAIN bs)
    IN UNION {{Prefix(pool, c) : pool \in Pools(c)} : c \in counts}

\* Manager.generate_match: a Match of the given contestants
GenerateMatch(contestants, seed) == [contestants |-> contestants, seed |-> seed]

\* Manager.generate_matches, line 327: the seed of a map is the one given, or
\* secrets.randbelow(2**31 - 1) when none is, here a number of 0..MaxSeed
MapSeeds(seed) == IF seed = NoSeed THEN 0..MaxSeed ELSE {seed}

\* Manager.generate_matches: the lists of n Matches it can return
GenerateMatches(bs, n, count, prioritize, seed) ==
    [1..n -> {GenerateMatch(c, sd) : c \in GenerateContestants(bs, count, prioritize),
                                     sd \in MapSeeds(seed)}]

\* Match.run_command, lines 138-139: the --seed option of the command, the
\* seed of the map when `if self.map.seed` holds, which it does not for None
\* and not for 0
RunCommand(match) ==
    IF match.seed /= NoSeed /\ match.seed /= 0 THEN match.seed ELSE NoSeed

\* the engine fails: non-zero exit (check=True), or output that is no JSON or
\* lacks a key that Match.run reads
EngineFails == [ok |-> FALSE, stats |-> <<>>, terminated |-> {}]

\* the 'stats' object of the engine's output: its entries <<index, rank>> in
\* order, for the indices q (the first contestant has index 1 here, "0" there)
Stats(q, ranks) == [j \in 1..Len(q) |-> <<q[j], ranks[j]>>]

\* the elements of the set of integers K in ascending order
Ascending(K) == CHOOSE q \in Perms(K) : \A i, j \in DOMAIN q : i < j => q[i] < q[j]

\* what the engine answers for a Match of k contestants when it keeps to its
\* protocol: it fails, or it ranks the k contestants and says of each whether
\* it was terminated
EngineOutcomes(k) ==
    {EngineFails} \cup
    {[ok |-> TRUE, stats |-> Stats(Ascending(1..k), p), terminated |-> 1..k] :
        p \in Perms(1..k)}

\* what an engine can answer that need not keep to the protocol: 'stats' and
\* 'terminated' have entries for any of the indices 1..k+1
AnyOutcomes(k) ==
    {EngineFails} \cup
    UNION {{[ok |-> TRUE, stats |-> Stats(Ascending(K), p), terminated |-> T] :
                p \in Perms(1..Cardinality(K)), T \in SUBSET (1..(k + 1))} :
            K \in SUBSET (1..(k + 1))}

\* the answers of the engine at HALITEBIN for a Match of k contestants
Answers(k) == IF halite = "protocol" THEN EngineOutcomes(k) ELSE AnyOutcomes(k)

\* Match.run, lines 169 and 173: self.contestants[int(k)] raises IndexError
\* for an index that is not one of a contestant
IndexError(m, out) ==
    ~(({e[1] : e \in Range(out.stats)} \cup out.terminated)
        \subseteq DOMAIN matches_to_run[m].contestants)

\* Match.run, from the engine's answer on: the Game of Match number m.  names
\* and ranks are Result.ranked() of its Result, terminated the keys of
\* Result.terminated
MatchRun(m, out) ==
    [match |-> m,
     contestants |-> matches_to_run[m].contestants,
     names |-> [j \in DOMAIN out.stats |-> matches_to_run[m].contestants[out.stats[j][1]]],
     ranks |-> [j \in DOMAIN out.stats |-> out.stats[j][2]],
     terminated |-> {matches_to_run[m].contestants[i] : i \in out.terminated}]

\* trueskill.TrueSkill.rate, a function of this module's collaborator: the
\* new rating of each player is a function of every player's rating and of the
\* ranks, kept as the term of its arguments
Rate(players, ranks) ==
    [i \in 1..Len(players) |-> <<i, players, ranks>>]

\* Manager.add_game run alone, lines 240-252: the bots after the Game
RECURSIVE AddGameFrom(_, _, _, _)
AddGameFrom(bs, game, new_ratings, i) ==
    IF i > Len(game.names) THEN bs
    ELSE LET name == game.names[i]
             rated == [bs EXCEPT ![name].rating = new_ratings[i],
                                 ![name].played = @ + 1]
             won == IF game.ranks[i] = 1
                    THEN [rated EXCEPT ![name].won = @ + 1] ELSE rated
         IN AddGameFrom(won, game, new_ratings, i + 1)

AddGame(bs, game) ==
    LET players == [i \in 1..Len(game.names) |-> bs[game.names[i]].rating]
    IN AddGameFrom(bs, game, Rate(players, game.ranks), 1)

\* a ledger whose bots have played one Game of an earlier run, which "a" won
PlayedGame ==
    [match |-> 0, contestants |-> <<"a", "b">>, names |-> <<"a", "b">>,
     ranks |-> <<1, 2>>, terminated |-> {"a", "b"}]
PlayedLedger ==
    Stored(AddGame(FreshLedger(Names).bots, PlayedGame), <<PlayedGame>>)

\* multiprocessing.pool.Pool._map_async: the chunk size for n tasks on t workers
ChunkSize(n, t) ==
    (n \div (4 * t)) + (IF n % (4 * t) > 0 THEN 1 ELSE 0)

\* multiprocessing.pool.Pool._get_tasks: 1..n cut into chunks of size c
RECURSIVE GetTasks(_, _, _)
GetTasks(from, n, c) ==
    IF from > n THEN <<>>
    ELSE <<[i \in 1..(Min(n, from + c - 1) - from + 1) |-> from + i - 1]>>
         \o GetTasks(from + c, n, c)

\* ------------------------------------------------------------- commands
\* the `run` commands modelled: --threads, --matches, --count, --prioritize
RunCommands(load) ==
    {c \in [name : {"run"}, threads : 1..MaxThreads, matches : 1..MaxMatches,
            count : {NoCount}, prioritize : {<<>>}, seed : {1}] :
        c.threads * c.matches <= load}

\* the commands that start a bot of Names
Commands == {"./" \o n : n \in Names}

\* the `add` commands modelled: --name, --command, --rating
AddCommands ==
    [name : {"add"}, bot : Names \cup {None}, command : Commands,
     rating : {None, <<30, 5000>>}]

\* add, lines 68-73: the name of the bot, taken from the command when --name
\* is not given
AddName(c) ==
    IF c.bot = None THEN CHOOSE n \in Names : c.command = "./" \o n ELSE c.bot

\* no invocation has ended yet
NoCommand == [cmd |-> [name |-> None], main |-> None, loaded |-> NoFile]

\* a worker thread of the pool that holds no task
Idle == [pc |-> "idle", chunk |-> <<>>, game |-> <<>>, players |-> <<>>,
         new_ratings |-> <<>>, i |-> 0, tmp |-> 0]

Workers == 1..MaxThreads

\* the process of an invocation has ended: normally, by an exception, or by
\* click.Abort
Exited == main \in {"done", "crashed", "aborted"}

\* the process of an invocation has ended, or has been killed
Ended == Exited \/ main = "killed"

\* main moves to position pc; when that ends the process, its worker threads
\* (daemon threads) end with it
Goto(pc) ==
    /\ main' = pc
    /\ thread' = IF pc \in {"done", "crashed", "aborted"}
                 THEN [w \in Workers |-> Idle] ELSE thread

\* the state of a starting invocation of command c on the store file st
StartWith(st, c, engine) ==
    /\ store = st
    /\ path = FALSE
    /\ bots = <<>>
    /\ games = <<>>
    /\ cmd = c
    /\ main = "cli"
    /\ invocations = 1
    /\ matches_to_run = <<>>
    /\ argv = <<>>
    /\ taskq = <<>>
    /\ left = 0
    /\ failed = FALSE
    /\ completed = 0
    /\ thread = [w \in Workers |-> Idle]
    /\ runs = <<>>
    /\ raised = {}
    /\ intr = NoIntr
    /\ halite = engine
    /\ table = {}
    /\ loaded = NoFile
    /\ prev = NoCommand
    /\ in_buffer = <<>>
    /\ in_queue = <<>>
    /\ out_queue = <<>>
    /\ processes = <<>>
    /\ joining = 0
    /\ counted = 0
    /\ applied = <<>>

\* the same, the engine keeping to its protocol
Start(st, c) == StartWith(st, c, "protocol")

\* `run` on a store that holds the bots of Names, none of which has played
Init == \E c \in RunCommands(MaxLoad) : Start(FreshLedger(Names), c)

\* what the commands other than run leave alone
runUnchanged == UNCHANGED <<matches_to_run, taskq, left, failed, completed, runs, intr, raised>>

\* cli(): Manager.read(path), or Manager.new(path) when the file cannot be
\* opened.  Manager.new reads manager._path, which the new Manager does not
\* have, and so raises AttributeError.  Manager.from_json raises on a file
\* that does not hold a whole ledger.
Cli ==
    /\ main = "cli"
    /\ IF ~store.exists \/ ~store.complete
       THEN /\ Goto("crashed")
            /\ UNCHANGED <<bots, games, path>>
       ELSE /\ bots' = store.bots
            /\ games' = store.games
            /\ path' = TRUE
            /\ Goto(cmd.name)
    /\ loaded' = store
    /\ UNCHANGED <<argv, halite, table, prev, legacy, store, cmd, invocations>>
    /\ runUnchanged

\* Manager.save, lines 356-358: validate, then open(self._path, 'w'), which
\* creates the file or cuts it to length 0
Save ==
    /\ main = "save"
    /\ IF path
       THEN store' = Truncated /\ Goto("write")
       ELSE store' = store /\ Goto("crashed")
    /\ UNCHANGED <<argv, halite, table, loaded, prev, legacy, path, bots, games, cmd, invocations>>
    /\ runUnchanged

\* Manager.save, line 359: the ledger is serialised and written, and the file
\* is closed
Write ==
    /\ main = "write"
    /\ store' = Stored(bots, games)
    /\ Goto("done")
    /\ UNCHANGED <<argv, halite, table, loaded, prev, legacy, path, bots, games, cmd, invocations>>
    /\ runUnchanged

\* ------------------------------------------------------------- run
\* run, lines 125-146: generate the matches, create the pool, and hand the
\* matches to pool.map, which queues them in chunks
RunMap ==
    /\ main = "run"
    /\ \E ms \in GenerateMatches(bots, cmd.matches, cmd.count, cmd.prioritize, cmd.seed) :
         matches_to_run' = ms
    /\ completed' = 0
    /\ taskq' = GetTasks(1, cmd.matches, ChunkSize(cmd.matches, cmd.threads))
    /\ left' = Len(taskq')
    /\ failed' = FALSE
    /\ runs' = [m \in 1..cmd.matches |-> 0]
    /\ raised' = {}
    /\ argv' = [m \in 1..cmd.matches |-> NoSeed]
    /\ main' = "map"
    /\ UNCHANGED <<halite, table, loaded, prev, legacy, store, path, bots, games, cmd, invocations, thread, intr>>

\* pool.map returns once every chunk has finished: it returns the results, or
\* raises the first exception of a worker, which run does not catch
MapReturns ==
    /\ main = "map"
    /\ left = 0
    /\ Goto(IF failed THEN "crashed" ELSE "save")
    /\ UNCHANGED <<argv, halite, table, loaded, prev, legacy, store, path, bots, games, cmd, invocations, matches_to_run,
                   taskq, left, failed, completed, runs, intr, raised>>

\* the matches whose Match.run has been called, and those whose call has returned
Started == {m \in DOMAIN runs : runs[m] > 0}
InFlight == {Head(thread[w].chunk) : w \in {v \in Workers : thread[v].pc = "engine"}}

\* KeyboardInterrupt reaches the main thread while it waits in pool.map
Interrupt ==
    /\ main = "map"
    /\ main' = "except"
    /\ intr' = [seen |-> TRUE, finished |-> Started \ InFlight]
    /\ UNCHANGED <<argv, halite, table, loaded, prev, legacy, store, path, bots, games, cmd, invocations, matches_to_run,
                   taskq, left, failed, completed, thread, runs, raised>>

\* pool.terminate(): the queued chunks are dropped; the workers are threads,
\* which terminate() cannot stop, so each goes on with the chunk it holds
Terminate ==
    /\ main = "except"
    /\ taskq' = <<>>
    /\ main' = "confirm"
    /\ UNCHANGED <<argv, halite, table, loaded, prev, legacy, store, path, bots, games, cmd, invocations, matches_to_run,
                   left, failed, completed, thread, runs, intr, raised>>

\* lines 158-160: with completed > 0 the user is asked, and click.confirm
\* aborts the command on the answer no
Confirm ==
    /\ main = "confirm"
    /\ IF completed > 0
       THEN \E yes \in BOOLEAN : Goto(IF yes THEN "save" ELSE "aborted")
       ELSE Goto("save")
    /\ UNCHANGED <<argv, halite, table, loaded, prev, legacy, store, path, bots, games, cmd, invocations, matches_to_run,
                   taskq, left, failed, completed, runs, intr, raised>>

\* ------------------------------------------------------------- workers
\* the worker threads of Pool(threads)
Pool == 1..cmd.threads

\* the Match a worker is at, and the contestant add_game's loop is at
MatchOf(w) == Head(thread[w].chunk)
NameOf(w) == thread[w].game.names[thread[w].i]

\* Get with the task left in the queue
GetKeepsTask(w) ==
    /\ ~Exited
    /\ thread[w].pc = "idle"
    /\ taskq /= <<>>
    /\ thread' = [thread EXCEPT ![w] = [Idle EXCEPT !.pc = "run", !.chunk = Head(taskq)]]
    /\ taskq' = taskq
    /\ UNCHANGED <<argv, halite, table, loaded, prev, legacy, store, path, bots, games, cmd, main, invocations, matches_to_run,
                   left, failed, completed, runs, intr, raised>>

\* a worker takes the next chunk of the task queue
Get(w) ==
    /\ ~Exited
    /\ thread[w].pc = "idle"
    /\ taskq /= <<>>
    /\ thread' = [thread EXCEPT ![w] = [Idle EXCEPT !.pc = "run", !.chunk = Head(taskq)]]
    /\ taskq' = Tail(taskq)
    /\ UNCHANGED <<argv, halite, table, loaded, prev, legacy, store, path, bots, games, cmd, main, invocations, matches_to_run,
                   left, failed, completed, runs, intr, raised>>

\* the state of the pool after the call of worker raised in the chunk of w:
\* the rest of the chunk is not run, the chunk is finished and has failed
Raised(w) ==
    /\ thread' = [thread EXCEPT ![w] = Idle]
    /\ left' = left - 1
    /\ failed' = TRUE

\* worker, line 135: Match.run builds the command of the engine, which raises
\* KeyError at a contestant that is not registered (line 145), and starts the
\* engine (subprocess.run)
RunStart(w) ==
    /\ ~Exited
    /\ thread[w].pc = "run"
    /\ runs' = [runs EXCEPT ![MatchOf(w)] = @ + 1]
    /\ IF Range(matches_to_run[MatchOf(w)].contestants) \subseteq DOMAIN bots
       THEN /\ thread' = [thread EXCEPT ![w].pc = "engine"]
            /\ argv' = [argv EXCEPT ![MatchOf(w)] = RunCommand(matches_to_run[MatchOf(w)])]
            /\ UNCHANGED <<left, failed, raised>>
       ELSE /\ Raised(w)
            /\ raised' = raised \cup {MatchOf(w)}
            /\ argv' = argv
    /\ UNCHANGED <<halite, table, loaded, prev, legacy, store, path, bots, games, cmd, main, invocations, matches_to_run,
                   taskq, completed, intr>>

\* the 'map_seed' of the engine's answer for Match number m: the seed it was
\* given with --seed, or else the one it made of the time of day
MapSeed(m) == IF argv[m] /= NoSeed THEN {argv[m]} ELSE 0..MaxSeed

\* worker, lines 135-138: the engine ends.  Match.run raises (check=True,
\* json.loads), or takes the seed of the map from the answer (line 159) and
\* raises IndexError or returns the Game; then `completed` is read
RunReturn(w) ==
    /\ ~Exited
    /\ thread[w].pc = "engine"
    /\ \E out \in Answers(Len(matches_to_run[MatchOf(w)].contestants)),
          sd \in MapSeed(MatchOf(w)) :
         IF ~out.ok
         THEN /\ Raised(w)
              /\ raised' = raised \cup {MatchOf(w)}
              /\ matches_to_run' = matches_to_run
         ELSE /\ matches_to_run' = [matches_to_run EXCEPT ![MatchOf(w)].seed = sd]
              /\ IF IndexError(MatchOf(w), out)
                 THEN /\ Raised(w)
                      /\ raised' = raised \cup {MatchOf(w)}
                 ELSE /\ thread' = [thread EXCEPT ![w].pc = "completed",
                                                  ![w].game = MatchRun(MatchOf(w), out),
                                                  ![w].tmp = completed]
                      /\ UNCHANGED <<left, failed, raised>>
    /\ UNCHANGED <<argv, halite, table, loaded, prev, legacy, store, path, bots, games, cmd, main, invocations,
                   taskq, completed, runs, intr>>

\* worker, line 138: completed += 1 stores the sum; add_game is entered
Completed(w) ==
    /\ ~Exited
    /\ thread[w].pc = "completed"
    /\ completed' = thread[w].tmp + 1
    /\ thread' = [thread EXCEPT ![w].pc = "players", ![w].i = 1, ![w].tmp = 0]
    /\ UNCHANGED <<argv, halite, table, loaded, prev, legacy, store, path, bots, games, cmd, main, invocations, matches_to_run,
                   taskq, left, failed, runs, intr, raised>>

\* add_game, lines 241-243: the rating of the next contestant is read; after
\* the last one the new ratings are computed.  Line 241 raises ValueError when
\* Result.ranked() is empty, TrueSkill.rate when it is given fewer than two
\* rating groups
ReadRating(w) ==
    /\ ~Exited
    /\ thread[w].pc = "players"
    /\ LET t == thread[w]
           players == Append(t.players, bots[NameOf(w)].rating)
       IN IF Len(t.game.names) = 0
          THEN Raised(w)
          ELSE IF t.i < Len(t.game.names)
          THEN /\ thread' = [thread EXCEPT ![w] = [t EXCEPT !.players = players, !.i = t.i + 1]]
               /\ UNCHANGED <<left, failed>>
          ELSE IF Len(players) < 2
          THEN Raised(w)
          ELSE /\ thread' = [thread EXCEPT ![w] =
                    [t EXCEPT !.players = players, !.i = 1, !.pc = "rating",
                              !.new_ratings = Rate(players, t.game.ranks)]]
               /\ UNCHANGED <<left, failed>>
    /\ UNCHANGED <<argv, halite, table, loaded, prev, legacy, store, path, bots, games, cmd, main, invocations, matches_to_run,
                   taskq, completed, runs, intr, raised>>

\* add_game, line 246
WriteRating(w) ==
    /\ ~Exited
    /\ thread[w].pc = "rating"
    /\ bots' = [bots EXCEPT ![NameOf(w)].rating = thread[w].new_ratings[thread[w].i]]
    /\ thread' = [thread EXCEPT ![w].pc = "played"]
    /\ UNCHANGED <<argv, halite, table, loaded, prev, legacy, store, path, games, cmd, main, invocations, matches_to_run,
                   taskq, left, failed, completed, runs, intr, raised>>

\* add_game, line 247: played += 1 reads played
ReadPlayed(w) ==
    /\ ~Exited
    /\ thread[w].pc = "played"
    /\ thread' = [thread EXCEPT ![w].pc = "played_w", ![w].tmp = bots[NameOf(w)].played]
    /\ UNCHANGED <<argv, halite, table, loaded, prev, legacy, store, path, bots, games, cmd, main, invocations, matches_to_run,
                   taskq, left, failed, completed, runs, intr, raised>>

\* where add_game's loop goes after the contestant it is at
NextName(t) ==
    IF t.i < Len(t.game.names)
    THEN [t EXCEPT !.pc = "rating", !.i = t.i + 1, !.tmp = 0]
    ELSE [t EXCEPT !.pc = "append", !.i = 0, !.tmp = 0]

\* WritePlayed without the test of the rank: won is counted for every contestant
WritePlayedThenWon(w) ==
    /\ ~Exited
    /\ thread[w].pc = "played_w"
    /\ bots' = [bots EXCEPT ![NameOf(w)].played = thread[w].tmp + 1]
    /\ thread' = [thread EXCEPT ![w] = [@ EXCEPT !.pc = "won", !.tmp = 0]]
    /\ UNCHANGED <<argv, halite, table, loaded, prev, legacy, store, path, games, cmd, main, invocations, matches_to_run,
                   taskq, left, failed, completed, runs, intr, raised>>

\* add_game, lines 247-249: played += 1 stores the sum
WritePlayed(w) ==
    /\ ~Exited
    /\ thread[w].pc = "played_w"
    /\ bots' = [bots EXCEPT ![NameOf(w)].played = thread[w].tmp + 1]
    /\ thread' = [thread EXCEPT ![w] =
            IF @.game.ranks[@.i] = 1 THEN [@ EXCEPT !.pc = "won", !.tmp = 0]
            ELSE NextName(@)]
    /\ UNCHANGED <<argv, halite, table, loaded, prev, legacy, store, path, games, cmd, main, invocations, matches_to_run,
                   taskq, left, failed, completed, runs, intr, raised>>

\* add_game, line 250: won += 1 reads won
ReadWon(w) ==
    /\ ~Exited
    /\ thread[w].pc = "won"
    /\ thread' = [thread EXCEPT ![w].pc = "won_w", ![w].tmp = bots[NameOf(w)].won]
    /\ UNCHANGED <<argv, halite, table, loaded, prev, legacy, store, path, bots, games, cmd, main, invocations, matches_to_run,
                   taskq, left, failed, completed, runs, intr, raised>>

\* add_game, line 250: won += 1 stores the sum
WriteWon(w) ==
    /\ ~Exited
    /\ thread[w].pc = "won_w"
    /\ bots' = [bots EXCEPT ![NameOf(w)].won = thread[w].tmp + 1]
    /\ thread' = [thread EXCEPT ![w] = NextName(@)]
    /\ UNCHANGED <<argv, halite, table, loaded, prev, legacy, store, path, games, cmd, main, invocations, matches_to_run,
                   taskq, left, failed, completed, runs, intr, raised>>

\* add_game, lines 252-253, and worker's return: the Game is appended; the
\* worker goes on with its chunk, or has finished it
AppendGame(w) ==
    /\ ~Exited
    /\ thread[w].pc = "append"
    /\ games' = Append(games, thread[w].game)
    /\ IF Len(thread[w].chunk) > 1
       THEN /\ thread' = [thread EXCEPT ![w] = [Idle EXCEPT !.pc = "run",
                                                    !.chunk = Tail(thread[w].chunk)]]
            /\ left' = left
       ELSE /\ thread' = [thread EXCEPT ![w] = Idle]
            /\ left' = left - 1
    /\ UNCHANGED <<argv, halite, table, loaded, prev, legacy, store, path, bots, cmd, main, invocations, matches_to_run,
                   taskq, failed, completed, runs, intr, raised>>

Next ==
    \/ Cli
    \/ RunMap
    \/ MapReturns
    \/ Interrupt
    \/ Terminate
    \/ Confirm
    \/ Save
    \/ Write
    \/ \E w \in Pool : Get(w)
    \/ \E w \in Pool : RunStart(w)
    \/ \E w \in Pool : RunReturn(w)
    \/ \E w \in Pool : Completed(w)
    \/ \E w \in Pool : ReadRating(w)
    \/ \E w \in Pool : WriteRating(w)
    \/ \E w \in Pool : ReadPlayed(w)
    \/ \E w \in Pool : WritePlayed(w)
    \/ \E w \in Pool : ReadWon(w)
    \/ \E w \in Pool : WriteWon(w)
    \/ \E w \in Pool : AppendGame(w)

Spec == Init /\ [][Next]_vars

\* ------------------------------------------------------------- add
\* Add without the test of line 227: the Bot takes the place of the one registered
AddOverwrites ==
    /\ main = "add"
    /\ \E yes \in BOOLEAN :
         IF ~yes
         THEN Goto("aborted") /\ bots' = bots
         ELSE /\ Goto("save")
              /\ bots' = [n \in DOMAIN bots \cup {AddName(cmd)} |->
                            IF n = AddName(cmd) THEN NewBot(cmd.command, cmd.rating)
                            ELSE bots[n]]
    /\ UNCHANGED <<argv, halite, table, loaded, prev, legacy, store, path, games, cmd, invocations>>
    /\ runUnchanged

\* add, lines 80-82: the user confirms, and Manager.add_bot registers the Bot
\* or raises KeyError for a name that is registered
Add ==
    /\ main = "add"
    /\ \E yes \in BOOLEAN :
         IF ~yes
         THEN Goto("aborted") /\ bots' = bots
         ELSE IF AddName(cmd) \in DOMAIN bots
         THEN Goto("crashed") /\ bots' = bots
         ELSE /\ Goto("save")
              /\ bots' = [n \in DOMAIN bots \cup {AddName(cmd)} |->
                            IF n = AddName(cmd) THEN NewBot(cmd.command, cmd.rating)
                            ELSE bots[n]]
    /\ UNCHANGED <<argv, halite, table, loaded, prev, legacy, store, path, games, cmd, invocations>>
    /\ runUnchanged

\* where the command line of command c starts: in cli() of manager/cli.py, or
\* in that of manager.py
Script(c) == IF c.name \in {"manager.py add", "manager.py run"} THEN "manager.py" ELSE "cli"

\* the command line is invoked again, with command c, after the process of the
\* last invocation has ended
Invoke(c) ==
    /\ Ended
    /\ invocations < MaxInvocations
    /\ Script(c) = Script(cmd)
    /\ invocations' = invocations + 1
    /\ cmd' = c
    /\ main' = Script(c)
    /\ path' = FALSE
    /\ bots' = <<>>
    /\ games' = <<>>
    /\ matches_to_run' = <<>>
    /\ taskq' = <<>>
    /\ left' = 0
    /\ failed' = FALSE
    /\ completed' = 0
    /\ runs' = <<>>
    /\ raised' = {}
    /\ intr' = NoIntr
    /\ table' = {}
    /\ loaded' = NoFile
    /\ prev' = [cmd |-> cmd, main |-> main, loaded |-> loaded]
    /\ argv' = <<>>
    /\ UNCHANGED <<halite, legacy, store, thread>>

\* the store files the command line is started on: none, or a saved ledger of
\* bots that have not played
Stores == {NoFile} \cup {FreshLedger(S) : S \in SUBSET Names}

InitCli == \E st \in Stores, c \in AddCommands : Start(st, c)

NextCli ==
    \/ Cli
    \/ Add
    \/ Save
    \/ Write
    \/ \E c \in AddCommands : Invoke(c)

SpecCli == InitCli /\ [][NextCli]_vars

\* ------------------------------------------------------------- rm, reset, bots
\* the `rm`, `reset` and `bots` commands modelled: --name
RmCommands == [name : {"rm"}, bot : Names \cup {None}]
ResetCommands == [name : {"reset"}, bot : Names \cup {None}]
BotsCommands == [name : {"bots"}]

\* Bot.reset: rating, played and won are set to the defaults of their fields
BotReset(bot) == [bot EXCEPT !.rating = DefaultRating, !.played = 0, !.won = 0]

\* Manager.reset: the games are cleared and every Bot is reset
ManagerReset(bs) == [n \in DOMAIN bs |-> BotReset(bs[n])]

\* rm, lines 93-100: `del manager.bots[name]`, which raises KeyError for a name
\* that is not registered; with no name, after the user confirms, all bots
\* and games are removed
Rm ==
    /\ main = "rm"
    /\ IF cmd.bot /= None
       THEN IF cmd.bot \in DOMAIN bots
            THEN /\ bots' = [n \in DOMAIN bots \ {cmd.bot} |-> bots[n]]
                 /\ games' = games
                 /\ Goto("save")
            ELSE /\ Goto("crashed")
                 /\ UNCHANGED <<bots, games>>
       ELSE \E yes \in BOOLEAN :
              IF yes
              THEN /\ bots' = [n \in {} |-> ManagerReset(bots)[n]]
                   /\ games' = <<>>
                   /\ Goto("save")
              ELSE /\ Goto("aborted")
                   /\ UNCHANGED <<bots, games>>
    /\ UNCHANGED <<argv, halite, table, loaded, prev, legacy, store, path, cmd, invocations>>
    /\ runUnchanged

\* Reset with a name, resetting every Bot
ResetEveryBot ==
    /\ main = "reset"
    /\ IF cmd.bot /= None
       THEN IF cmd.bot \in DOMAIN bots
            THEN \E yes \in BOOLEAN :
                   IF yes
                   THEN /\ bots' = ManagerReset(bots)
                        /\ games' = SelectSeq(games, LAMBDA g :
                               \A c \in Range(g.contestants) : c \notin DOMAIN bots)
                        /\ Goto("save")
                   ELSE /\ Goto("aborted")
                        /\ UNCHANGED <<bots, games>>
            ELSE /\ Goto("crashed")
                 /\ UNCHANGED <<bots, games>>
       ELSE \E yes \in BOOLEAN :
              IF yes
              THEN /\ bots' = ManagerReset(bots)
                   /\ games' = <<>>
                   /\ Goto("save")
              ELSE /\ Goto("aborted")
                   /\ UNCHANGED <<bots, games>>
    /\ UNCHANGED <<argv, halite, table, loaded, prev, legacy, store, path, cmd, invocations>>
    /\ runUnchanged

\* reset, lines 41-55.  With a name: manager.bots[name], which raises KeyError
\* for a name that is not registered; after the user confirms, that Bot is
\* reset and the games that have a registered contestant are deleted.  With no
\* name, after the user confirms, Manager.reset
Reset ==
    /\ main = "reset"
    /\ IF cmd.bot /= None
       THEN IF cmd.bot \in DOMAIN bots
            THEN \E yes \in BOOLEAN :
                   IF yes
                   THEN /\ bots' = [bots EXCEPT ![cmd.bot] = BotReset(@)]
                        /\ games' = SelectSeq(games, LAMBDA g :
                               \A c \in Range(g.contestants) : c \notin DOMAIN bots)
                        /\ Goto("save")
                   ELSE /\ Goto("aborted")
                        /\ UNCHANGED <<bots, games>>
            ELSE /\ Goto("crashed")
                 /\ UNCHANGED <<bots, games>>
       ELSE \E yes \in BOOLEAN :
              IF yes
              THEN /\ bots' = ManagerReset(bots)
                   /\ games' = <<>>
                   /\ Goto("save")
              ELSE /\ Goto("aborted")
                   /\ UNCHANGED <<bots, games>>
    /\ UNCHANGED <<argv, halite, table, loaded, prev, legacy, store, path, cmd, invocations>>
    /\ runUnchanged

\* bots, line 176: the win rate of a Bot, 100 * (won / played), as the fraction
\* <<100 * won, played>>
WinRate(bot) == IF bot.played > 0 THEN <<100 * bot.won, bot.played>> ELSE None

\* Bots listing the contestants of the games beside the registered bots
BotsWithContestants ==
    /\ main = "bots"
    /\ table' = {[name |-> n, command |-> "./" \o n, played |-> 0,
                  win_rate |-> None, rating |-> DefaultRating] :
                    n \in (UNION {Range(games[i].contestants) : i \in DOMAIN games})
                            \ DOMAIN bots}
                 \cup {[name |-> n, command |-> bots[n].command, played |-> bots[n].played,
                  win_rate |-> WinRate(bots[n]), rating |-> bots[n].rating] :
                    n \in DOMAIN bots}
    /\ Goto("done")
    /\ UNCHANGED <<argv, halite, loaded, prev, legacy, store, path, bots, games, cmd, invocations>>
    /\ runUnchanged

\* bots, lines 173-191: one row of the table for every registered Bot.  The
\* order of the rows, that of the ratings, is not modelled.  Nothing is saved.
Bots ==
    /\ main = "bots"
    /\ table' = {[name |-> n, command |-> bots[n].command, played |-> bots[n].played,
                  win_rate |-> WinRate(bots[n]), rating |-> bots[n].rating] :
                    n \in DOMAIN bots}
    /\ Goto("done")
    /\ UNCHANGED <<argv, halite, loaded, prev, legacy, store, path, bots, games, cmd, invocations>>
    /\ runUnchanged

\* the process is killed (a signal, the power) wherever it is.  Killed inside
\* f.write, lines 358-359, it leaves the file with what had reached it:
\* nothing, or the start of the serialisation, here the bots without the games
Kill ==
    /\ ~Ended
    /\ main' = "killed"
    /\ IF main = "write"
       THEN \E part \in {Truncated, [Truncated EXCEPT !.bots = bots]} : store' = part
       ELSE store' = store
    /\ UNCHANGED <<argv, halite, table, loaded, prev, legacy, path, bots, games, cmd, invocations, thread>>
    /\ runUnchanged

\* ------------------------------------------------------------- uninterrupted run
\* `run` while no KeyboardInterrupt arrives
InitUninterrupted ==
    \E st \in {FreshLedger(Names), PlayedLedger}, c \in RunCommands(MaxBatch) :
        Start(st, c)

NextUninterrupted ==
    \/ Cli
    \/ RunMap
    \/ MapReturns
    \/ Save
    \/ Write
    \/ \E w \in Pool : Get(w)
    \/ \E w \in Pool : RunStart(w)
    \/ \E w \in Pool : RunReturn(w)
    \/ \E w \in Pool : Completed(w)
    \/ \E w \in Pool : ReadRating(w)
    \/ \E w \in Pool : WriteRating(w)
    \/ \E w \in Pool : ReadPlayed(w)
    \/ \E w \in Pool : WritePlayed(w)
    \/ \E w \in Pool : ReadWon(w)
    \/ \E w \in Pool : WriteWon(w)
    \/ \E w \in Pool : AppendGame(w)

SpecUninterrupted == InitUninterrupted /\ [][NextUninterrupted]_vars

\* `run --threads 1` while no KeyboardInterrupt arrives
InitOneWorker ==
    \E st \in {FreshLedger(Names), PlayedLedger},
       c \in {r \in RunCommands(MaxBatch) : r.threads = 1} : Start(st, c)

SpecOneWorker == InitOneWorker /\ [][NextUninterrupted]_vars

\* ------------------------------------------------------------- engine
\* `run` of one match on one thread, with an engine that need not keep to its
\* protocol
InitEngine ==
    \E st \in {FreshLedger(Names), PlayedLedger},
       c \in {r \in RunCommands(MaxBatch) : r.threads = 1 /\ r.matches = 1} :
        StartWith(st, c, "any")

SpecEngine == InitEngine /\ [][NextUninterrupted]_vars

\* ------------------------------------------------------------- seed
\* the `run` commands with and without --seed
SeedCommands ==
    [name : {"run"}, threads : {1}, matches : 1..2, count : {NoCount},
     prioritize : {<<>>}, seed : {NoSeed} \cup (0..MaxSeed)]

\* `run` of one or two matches on one thread, with any --seed or none
InitSeed == \E c \in SeedCommands : Start(FreshLedger(Names), c)

SpecSeed == InitSeed /\ [][NextUninterrupted]_vars

\* ------------------------------------------------------------- properties
\* the Games this batch has appended, and the matches they are of
BatchGames == SelectSeq(games, LAMBDA g : g.match > 0)
Committed == {g.match : g \in Range(BatchGames)}
Persisted == {g.match : g \in Range(store.games)} \ {0}

\* worker w is inside add_game: it has read a rating and has not yet returned
Begun(w) ==
    \/ thread[w].pc \in {"rating", "played", "played_w", "won", "won_w", "append"}
    \/ thread[w].pc = "players" /\ thread[w].i > 1

\* no worker is inside add_game
Quiescent == \A w \in Workers : ~Begun(w)

\* C1: Bot mutation is serialized: two executions of add_game that share a
\* contestant never overlap, each reads and writes back its Bots with no other
\* add_game in between
C1_Serialized ==
    \A w1, w2 \in Workers :
        (w1 /= w2 /\ Begun(w1) /\ Begun(w2)) =>
            Range(thread[w1].game.contestants)
                \cap Range(thread[w2].game.contestants) = {}

\* C2: after any sequence of add_game commits, those of concurrently completing
\* workers included, every Bot has won <= played
C2_WonAtMostPlayed ==
    Quiescent => \A n \in DOMAIN bots : bots[n].won <= bots[n].played

\* C3: after an uninterrupted run of n matches on at most n workers, the Games
\* appended number the matches whose Match.run did not raise
C3_GamesAreMatchesNotRaised ==
    (main \in {"save", "done", "crashed"} /\ cmd.threads <= cmd.matches) =>
        Len(BatchGames) = cmd.matches - Cardinality(raised)

\* C4: a match whose Match.run raises does not abort the batch: every other
\* match is executed and committed, and the command saves their Games
C4_FailureIsolated ==
    (Exited /\ raised /= {}) =>
        /\ main = "done"
        /\ Persisted = (1..cmd.matches) \ raised

\* C5: a run interrupted after k of its matches have completed ends without
\* error, with exactly the Games of those k matches written to the store.  The
\* runs in which the user declines the confirmation of line 159 are left out.
C5_InterruptKeepsCompleted ==
    (Exited /\ intr.seen /\ main /= "aborted") =>
        /\ main = "done"
        /\ Persisted = intr.finished \ raised

\* C6: once the batch has received the interrupt (pool.terminate() has been
\* called for it), no match that had not been started is started
C6_NoStartAfterInterrupt ==
    [][(intr.seen /\ main /= "except") => runs' = runs]_vars

\* C7: every Match of a batch is run at most once and its Game is appended at
\* most once
C7_AtMostOnce ==
    \A m \in DOMAIN runs :
        /\ runs[m] <= 1
        /\ Cardinality({i \in DOMAIN games : games[i].match = m}) <= 1

\* two workers have run and committed one match each
C7_Witness ==
    /\ cmd.threads = 2
    /\ Len(BatchGames) = 2
    /\ \A m \in DOMAIN runs : runs[m] = 1
    /\ Quiescent

\* the Games of the batch that name n, and those of them that rank n first
PlayedIn(n) ==
    {i \in DOMAIN BatchGames : n \in Range(BatchGames[i].names)}
WonIn(n) ==
    {i \in DOMAIN BatchGames :
        \E j \in DOMAIN BatchGames[i].names :
            BatchGames[i].names[j] = n /\ BatchGames[i].ranks[j] = 1}

\* C8: add_game, run for one Game at a time, adds 1 to played of every
\* contestant of the Game, 1 to won of those ranked 1, and appends the Game:
\* between the calls of one worker, the counters are those loaded plus the
\* Games appended since
C8_AddGameCounts ==
    (cmd.threads = 1 /\ main \in {"map", "save", "crashed"}
        /\ thread[1].pc \in {"idle", "run", "engine", "completed"}) =>
        /\ Len(BatchGames) = completed
        /\ games = store.games \o BatchGames
        /\ \A n \in DOMAIN bots :
            /\ bots[n].played = store.bots[n].played + Cardinality(PlayedIn(n))
            /\ bots[n].won = store.bots[n].won + Cardinality(WonIn(n))

\* fresh bots a and b after one Game that ranks a first
C8_Witness ==
    /\ cmd.threads = 1
    /\ main = "map"
    /\ thread[1].pc = "idle"
    /\ store.games = <<>>
    /\ Len(games) = 1
    /\ games[1].contestants = <<"a", "b">>
    /\ games[1].ranks = <<1, 2>>
    /\ bots["a"].played = 1 /\ bots["a"].won = 1
    /\ bots["b"].played = 1 /\ bots["b"].won = 0

\* the Game of match m, and the bots after one worker has committed the Games of
\* matches m, m+1, ... in this order
GameOf(m) == BatchGames[CHOOSE i \in DOMAIN BatchGames : BatchGames[i].match = m]
RECURSIVE SerialFrom(_, _)
SerialFrom(bs, m) ==
    IF m > cmd.matches THEN bs ELSE SerialFrom(AddGame(bs, GameOf(m)), m + 1)

\* C9: the matches of a batch, with the same engine outcomes, leave every Bot
\* in the state one worker leaves it in, whatever the number of workers
C9_SameAsOneWorker ==
    main = "save" =>
        /\ Committed = 1..cmd.matches
        /\ Len(BatchGames) = cmd.matches
        /\ bots = SerialFrom(store.bots, 1)

\* C10: with no store file the command line starts on an empty ledger bound
\* to the path, and does not fail
C10_MissingStoreIsEmptyLedger ==
    ~store.exists =>
        /\ main \in {"cli", "add", "save", "aborted"}
        /\ main /= "cli" => (path /\ games = <<>>)

\* ------------------------------------------------------------- manager.py
\* Database.add: the entry of a bot
Entry(command, rating) == [command |-> command, rating |-> rating, played |-> 0]

\* manager.db holding the bots of S, added by `add` with its default options
FreshDb(S) ==
    Stored([n \in S |-> Entry("python3 " \o n \o ".py", DefaultRating)], <<>>)

\* the `add` commands of manager.py modelled: PATH (a file), --name, --rating
LegacyAddCommands ==
    [name : {"manager.py add"}, bot : Names \cup {None},
     file : {n \o ".py" : n \in Names}, rating : {DefaultRating, <<30, 5000>>}]

\* the `run` commands of manager.py modelled, those of run_parallel_matches
\* (neither --threads nor --matches is 1): --matches, --threads, --number,
\* --priority
LegacyRunCommands(numbers, priorities) ==
    [name : {"manager.py run"}, matches : 2..MaxQueued, threads : 2..MaxThreads,
     number : numbers, priority : priorities]

\* the state of a starting invocation of manager.py with command c, manager.db
\* being st
StartLegacy(st, c) ==
    /\ store = st
    /\ path = FALSE
    /\ bots = <<>>
    /\ games = <<>>
    /\ cmd = c
    /\ main = "manager.py"
    /\ invocations = 1
    /\ matches_to_run = <<>>
    /\ argv = <<>>
    /\ taskq = <<>>
    /\ left = 0
    /\ failed = FALSE
    /\ completed = 0
    /\ thread = [w \in Workers |-> Idle]
    /\ runs = <<>>
    /\ raised = {}
    /\ intr = NoIntr
    /\ halite = "protocol"
    /\ table = {}
    /\ loaded = NoFile
    /\ prev = NoCommand
    /\ in_buffer = <<>>
    /\ in_queue = <<>>
    /\ out_queue = <<>>
    /\ processes = <<>>
    /\ joining = 0
    /\ counted = 0
    /\ applied = <<>>

\* what the actions of manager.py leave alone
legacyUnchanged ==
    UNCHANGED <<games, cmd, invocations, matches_to_run, taskq, left, failed,
                completed, thread, runs, raised, halite, table, prev, argv>>

\* cli, line 246: Database('manager.db') loads the file when there is one
\* (pickle.load raises on a file that does not hold the whole pickle), and
\* is empty otherwise
LegacyCli ==
    /\ main = "manager.py"
    /\ IF store.exists /\ ~store.complete
       THEN /\ main' = "crashed"
            /\ UNCHANGED <<bots, path>>
       ELSE /\ bots' = store.bots
            /\ path' = TRUE
            /\ main' = cmd.name
    /\ loaded' = store
    /\ UNCHANGED <<store, intr, legacy>>
    /\ legacyUnchanged

\* add, lines 280-281: the name of the bot, that of the file without its
\* extension when --name is not given
LegacyAddName(c) ==
    IF c.bot = None THEN CHOOSE n \in Names : c.file = n \o ".py" ELSE c.bot

\* add, lines 266-282, for a PATH that is a file: a name that is not in the
\* database is added and the database is saved; for one that is, 'already
\* exists' is printed
LegacyAdd ==
    /\ main = "manager.py add"
    /\ IF LegacyAddName(cmd) \notin DOMAIN bots
       THEN /\ bots' = [n \in DOMAIN bots \cup {LegacyAddName(cmd)} |->
                          IF n = LegacyAddName(cmd)
                          THEN Entry("python3 " \o cmd.file, cmd.rating)
                          ELSE bots[n]]
            /\ main' = "save"
       ELSE /\ bots' = bots
            /\ main' = "done"
    /\ UNCHANGED <<store, path, loaded, intr, legacy>>
    /\ legacyUnchanged

\* a slice pool[:n] of Python
Slice(pool, n) ==
    IF n >= 0 THEN Prefix(pool, n) ELSE SubSeq(pool, 1, Max(0, Len(pool) + n))

\* random_contestants: the lists it can return; none when random.randint is
\* given an empty range, for which it raises ValueError
random_contestants(db, number, priority) ==
    LET numbers == IF number = NoCount
                   THEN Max(2, Len(priority))..Min(6, Cardinality(DOMAIN db))
                   ELSE {number}
    IN UNION {IF Len(priority) > 0
              THEN UNION {Shuffles(priority \o Slice(pool, n - Len(priority))) :
                             pool \in Perms(DOMAIN db \ Range(priority))}
              ELSE {Slice(pool, n) : pool \in Perms(DOMAIN db)} : n \in numbers}

\* a worker process that has been started, and the state of one that holds no
\* task
Spawned == [pc |-> "loop", task |-> <<>>, buffer |-> <<>>]

\* the worker processes
Processes == DOMAIN processes

\* run, lines 328-341, and run_parallel_matches, lines 205-219.  A priority
\* name that is not in the database, or an empty database, ends the command
\* with a message.  Otherwise the contestants of every match are drawn and put
\* on in_queue, and the worker processes are started
LegacyRun ==
    /\ main = "manager.py run"
    /\ IF Len(cmd.priority) > 0 /\ ~(Range(cmd.priority) \subseteq DOMAIN bots)
       THEN /\ main' = "done"
            /\ UNCHANGED <<in_buffer, processes, joining>>
       ELSE IF Cardinality(DOMAIN bots) = 0
       THEN /\ main' = "done"
            /\ UNCHANGED <<in_buffer, processes, joining>>
       ELSE IF random_contestants(bots, cmd.number, cmd.priority) = {}
       THEN /\ main' = "crashed"
            /\ UNCHANGED <<in_buffer, processes, joining>>
       ELSE /\ \E q \in [1..cmd.matches ->
                            random_contestants(bots, cmd.number, cmd.priority)] :
                   in_buffer' = [i \in 1..cmd.matches |-> [match |-> i, contestants |-> q[i]]]
            /\ processes' = [p \in 1..cmd.threads |-> Spawned]
            /\ joining' = 1
            /\ main' = "join"
    /\ UNCHANGED <<store, path, bots, loaded, intr, in_queue, out_queue, counted, applied>>
    /\ legacyUnchanged

\* the feeder thread of in_queue, in the parent, writes the next match to the pipe
FeedIn ==
    /\ main \in {"join", "terminate", "drain"}
    /\ in_buffer /= <<>>
    /\ in_queue' = Append(in_queue, Head(in_buffer))
    /\ in_buffer' = Tail(in_buffer)
    /\ UNCHANGED <<store, path, bots, main, loaded, intr, out_queue, processes,
                   joining, counted, applied>>
    /\ legacyUnchanged

\* the parent process is in run_parallel_matches
Running == main \in {"join", "terminate", "drain"}

\* parallel_worker, lines 189-190: in_queue.empty() decides between the end
\* of the loop and in_queue.get()
Empty(p) ==
    /\ Running
    /\ processes[p].pc = "loop"
    /\ processes' = [processes EXCEPT ![p].pc = IF in_queue = <<>> THEN "exit" ELSE "get"]
    /\ UNCHANGED <<store, path, bots, main, loaded, intr, in_buffer, in_queue, out_queue,
                   joining, counted, applied>>
    /\ legacyUnchanged

\* parallel_worker, line 192: in_queue.get() waits for a match and takes it
QueueGet(p) ==
    /\ Running
    /\ processes[p].pc = "get"
    /\ in_queue /= <<>>
    /\ processes' = [processes EXCEPT ![p].pc = "match", ![p].task = Head(in_queue)]
    /\ in_queue' = Tail(in_queue)
    /\ UNCHANGED <<store, path, bots, main, loaded, intr, in_buffer, out_queue,
                   joining, counted, applied>>
    /\ legacyUnchanged

\* the result of match(): the contestants and their ranks, counted from 0
LegacyResult(task, ranks) ==
    [match |-> task.match, contestants |-> task.contestants,
     ranks |-> [i \in DOMAIN ranks |-> ranks[i] - 1]]

\* parallel_worker, lines 195-196: match() runs the engine and reads its
\* output, and raises when it cannot, which ends the process; out_queue.put
\* leaves the result in the buffer of the Queue
Match(p) ==
    /\ Running
    /\ processes[p].pc = "match"
    /\ \E ranks \in {<<>>} \cup Perms(1..Len(processes[p].task.contestants)) :
         processes' = [processes EXCEPT ![p] =
            IF ranks = <<>>
            THEN [@ EXCEPT !.pc = "exit", !.task = <<>>]
            ELSE [@ EXCEPT !.pc = "loop", !.task = <<>>,
                           !.buffer = Append(@, LegacyResult(processes[p].task, ranks))]]
    /\ UNCHANGED <<store, path, bots, main, loaded, intr, in_buffer, in_queue, out_queue,
                   joining, counted, applied>>
    /\ legacyUnchanged

\* the feeder thread of out_queue, in worker p, writes the next result to the pipe
Feed(p) ==
    /\ Running
    /\ processes[p].pc \notin {"exited", "terminated"}
    /\ processes[p].buffer /= <<>>
    /\ out_queue' = Append(out_queue, Head(processes[p].buffer))
    /\ processes' = [processes EXCEPT ![p].buffer = Tail(@)]
    /\ UNCHANGED <<store, path, bots, main, loaded, intr, in_buffer, in_queue,
                   joining, counted, applied>>
    /\ legacyUnchanged

\* a worker process ends once the feeder thread of its Queue has written
\* all it was given
Exit(p) ==
    /\ Running
    /\ processes[p].pc = "exit"
    /\ processes[p].buffer = <<>>
    /\ processes' = [processes EXCEPT ![p].pc = "exited"]
    /\ UNCHANGED <<store, path, bots, main, loaded, intr, in_buffer, in_queue, out_queue,
                   joining, counted, applied>>
    /\ legacyUnchanged

\* run_parallel_matches, lines 222-224: p.join() returns when the process has
\* ended; after the last one the results are drained
Join ==
    /\ main = "join"
    /\ processes[joining].pc \in {"exited", "terminated"}
    /\ IF joining < Len(processes)
       THEN joining' = joining + 1 /\ main' = main
       ELSE joining' = 0 /\ main' = "drain"
    /\ UNCHANGED <<store, path, bots, loaded, intr, in_buffer, in_queue, out_queue,
                   processes, counted, applied>>
    /\ legacyUnchanged

\* the results whose out_queue.put has returned and that have not been taken
\* from out_queue
Put ==
    {r.match : r \in Range(out_queue)}
        \cup UNION {{r.match : r \in Range(processes[p].buffer)} : p \in Processes}

\* KeyboardInterrupt reaches the parent while it waits in p.join()
LegacyInterrupt ==
    /\ main = "join"
    /\ main' = "terminate"
    /\ intr' = [seen |-> TRUE, finished |-> Put]
    /\ UNCHANGED <<store, path, bots, loaded, legacy>>
    /\ legacyUnchanged

\* run_parallel_matches, lines 225-227: p.terminate() for every process.
\* SIGTERM ends a process that has not ended, and with it the feeder thread
\* of its Queue and what that had not yet written
LegacyTerminate ==
    /\ main = "terminate"
    /\ processes' = [p \in Processes |->
                        IF processes[p].pc = "exited" THEN processes[p]
                        ELSE [pc |-> "terminated", task |-> <<>>, buffer |-> <<>>]]
    /\ main' = "drain"
    /\ UNCHANGED <<store, path, bots, loaded, intr, in_buffer, in_queue, out_queue,
                   joining, counted, applied>>
    /\ legacyUnchanged

\* update_rankings: the database after the result
RECURSIVE SetRatings(_, _, _, _)
SetRatings(db, contestants, ratings, i) ==
    IF i > Len(contestants) THEN db
    ELSE SetRatings([db EXCEPT ![contestants[i]].rating = ratings[i],
                               ![contestants[i]].played = @ + 1],
                    contestants, ratings, i + 1)

update_rankings(db, contestants, ranks) ==
    SetRatings(db, contestants,
               Rate([i \in DOMAIN contestants |-> db[contestants[i]].rating], ranks), 1)

\* run_parallel_matches, lines 229-233, and run, line 337: while out_queue is
\* not empty its next result is taken, counted and applied by
\* update_rankings, in which TrueSkill.rate raises ValueError for fewer than
\* two contestants; then the database is saved
Drain ==
    /\ main = "drain"
    /\ IF out_queue /= <<>>
       THEN IF Len(Head(out_queue).contestants) < 2
            THEN /\ counted' = counted + 1
                 /\ out_queue' = Tail(out_queue)
                 /\ main' = "crashed"
                 /\ UNCHANGED <<bots, applied>>
            ELSE /\ counted' = counted + 1
                 /\ bots' = update_rankings(bots, Head(out_queue).contestants,
                                            Head(out_queue).ranks)
                 /\ applied' = Append(applied, Head(out_queue))
                 /\ out_queue' = Tail(out_queue)
                 /\ main' = main
       ELSE /\ main' = "save"
            /\ UNCHANGED <<bots, out_queue, counted, applied>>
    /\ UNCHANGED <<store, path, loaded, intr, in_buffer, in_queue, processes, joining>>
    /\ legacyUnchanged

\* `run` of manager.py on the database of the bots of Names
InitLegacy ==
    \E c \in LegacyRunCommands({NoCount, 2}, {<<>>}) : StartLegacy(FreshDb(Names), c)

NextLegacy ==
    \/ LegacyCli
    \/ LegacyRun
    \/ FeedIn
    \/ \E p \in Processes : Empty(p)
    \/ \E p \in Processes : QueueGet(p)
    \/ \E p \in Processes : Match(p)
    \/ \E p \in Processes : Feed(p)
    \/ \E p \in Processes : Exit(p)
    \/ Join
    \/ LegacyInterrupt
    \/ LegacyTerminate
    \/ Drain
    \/ Save
    \/ Write

SpecLegacy == InitLegacy /\ [][NextLegacy]_vars

\* `run` of manager.py that no KeyboardInterrupt reaches
NextJoin ==
    \/ LegacyCli
    \/ LegacyRun
    \/ FeedIn
    \/ \E p \in Processes : Empty(p)
    \/ \E p \in Processes : QueueGet(p)
    \/ \E p \in Processes : Match(p)
    \/ \E p \in Processes : Feed(p)
    \/ \E p \in Processes : Exit(p)
    \/ Join
    \/ Drain
    \/ Save
    \/ Write

\* the parent, its feeder thread, and every worker process and the feeder
\* thread of each go on when they can: none of them is kept from running
\* for ever
FairJoin ==
    /\ WF_vars(LegacyCli) /\ WF_vars(LegacyRun) /\ WF_vars(FeedIn)
    /\ WF_vars(Join) /\ WF_vars(Drain) /\ WF_vars(Save) /\ WF_vars(Write)
    /\ \A p \in 1..MaxThreads :
        /\ WF_vars(p \in Processes /\ Empty(p))
        /\ WF_vars(p \in Processes /\ QueueGet(p))
        /\ WF_vars(p \in Processes /\ Match(p))
        /\ WF_vars(p \in Processes /\ Feed(p))
        /\ WF_vars(p \in Processes /\ Exit(p))

SpecJoin == InitLegacy /\ [][NextJoin]_vars /\ FairJoin

\* the store files the ledger commands are started on
LedgerStores == {FreshLedger(S) : S \in SUBSET Names} \cup {PlayedLedger}
LedgerCommands == AddCommands \cup RmCommands \cup ResetCommands \cup BotsCommands

\* the databases the `add` of manager.py is started on
LegacyStores == {NoFile} \cup {FreshDb(S) : S \in SUBSET Names}

\* a ledger command of manager/cli.py, or `add` of manager.py
InitLedger ==
    \/ \E st \in LedgerStores, c \in LedgerCommands : Start(st, c)
    \/ \E st \in LegacyStores, c \in LegacyAddCommands : StartLegacy(st, c)

NextLedger ==
    \/ Cli
    \/ Add
    \/ Rm
    \/ Reset
    \/ Bots
    \/ Save
    \/ Write
    \/ \E c \in LedgerCommands : Invoke(c)
    \/ LegacyCli
    \/ LegacyAdd
    \/ \E c \in LegacyAddCommands : Invoke(c)

SpecLedger == InitLedger /\ [][NextLedger]_vars

\* the ledger commands, the process being killed at any point
NextCrash ==
    \/ NextLedger
    \/ Kill

SpecCrash == InitLedger /\ [][NextCrash]_vars

\* ------------------------------------------------------------- selection
\* the names of the bots of the ledgers whose selection is looked at
Fleet == Names \cup {"c"}

RECURSIVE Seqs(_, _)
\* the sequences over S of length n or less
Seqs(S, n) ==
    IF n = 0 THEN {<<>>}
    ELSE Seqs(S, n - 1) \cup {Append(q, x) : q \in Seqs(S, n - 1), x \in S}

\* the `run` commands of one match on one thread: --count is an integer from
\* 1 (click.IntRange(1, 8)) or is not given, --prioritize is given any number
\* of times with any name
SelectCommands ==
    [name : {"run"}, threads : {1}, matches : {1},
     count : {NoCount} \cup (1..MaxCount), prioritize : Seqs(Fleet, MaxPriority),
     seed : {1}]

\* `run` on a store that holds any of the bots of Fleet, or `run` of
\* manager.py on such a database
InitSelect ==
    \/ \E S \in SUBSET Fleet, c \in SelectCommands : Start(FreshLedger(S), c)
    \/ \E S \in SUBSET Fleet,
          c \in LegacyRunCommands({NoCount} \cup (1..MaxCount), Seqs(Fleet, MaxPriority)) :
            StartLegacy(FreshDb(S), c)

\* the package's `run` to its end; manager.py's `run` until the matches it has
\* drawn are in in_queue
NextSelect ==
    \/ NextUninterrupted
    \/ LegacyCli
    \/ LegacyRun
    \/ FeedIn

SpecSelect == InitSelect /\ [][NextSelect]_vars


C16_AddCollisionFails ==
    /\ (cmd.name = "add" /\ path /\ main /= "add"
            /\ AddName(cmd) \in DOMAIN loaded.bots) =>
            /\ main \in {"crashed", "aborted"}
            /\ store = loaded
            /\ bots = loaded.bots
    /\ (cmd.name = "manager.py add" /\ path /\ main /= "manager.py add"
            /\ LegacyAddName(cmd) \in DOMAIN loaded.bots) =>
            /\ main = "done"
            /\ store = loaded
            /\ bots = loaded.bots

\* `add --name a --command ./b --rating 30 5` on a store that holds "a" has
\* failed, and "a" is the Bot it was
C16_Witness ==
    /\ cmd.name = "add" /\ cmd.bot = "a" /\ cmd.command = "./b"
    /\ cmd.rating /= None
    /\ main = "crashed"
    /\ path
    /\ store.bots["a"].command = "./a"
    /\ store.bots["a"].rating = DefaultRating

\* the stored Games that name n as a contestant
Referenced(st, n) == \E i \in DOMAIN st.games : n \in Range(st.games[i].contestants)

\* C17: after `rm` of a bot that is a contestant of stored Games, the ledger
\* is saved, without the bot and with its games; the `bots` command that
\* follows ends without error and shows no row for the bot
C17_RmThenBots ==
    (cmd.name = "bots" /\ main \notin {"cli", "bots"}
        /\ prev.cmd.name = "rm" /\ prev.cmd.bot /= None
        /\ prev.cmd.bot \in DOMAIN prev.loaded.bots
        /\ Referenced(prev.loaded, prev.cmd.bot)) =>
        /\ prev.main = "done"
        /\ main = "done"
        /\ loaded.complete
        /\ DOMAIN loaded.bots = DOMAIN prev.loaded.bots \ {prev.cmd.bot}
        /\ \A r \in table : r.name /= prev.cmd.bot
        /\ {r.name : r \in table} = DOMAIN prev.loaded.bots \ {prev.cmd.bot}

\* `rm --name a`, "a" having played a stored Game against "b", then `bots`,
\* which lists "b" alone
C17_Witness ==
    /\ cmd.name = "bots" /\ main = "done"
    /\ prev.cmd.name = "rm" /\ prev.cmd.bot = "a"
    /\ prev.loaded = PlayedLedger
    /\ loaded.games = <<PlayedGame>>
    /\ {r.name : r \in table} = {"b"}

\* C18: `reset --name n` sets rating, played and won of n to the defaults and
\* leaves the command of n and every other Bot as loaded
C18_ResetOneBot ==
    (cmd.name = "reset" /\ cmd.bot /= None /\ main \in {"save", "write", "done"}) =>
        /\ DOMAIN bots = DOMAIN loaded.bots
        /\ bots[cmd.bot] = [command |-> loaded.bots[cmd.bot].command,
                            rating |-> DefaultRating, played |-> 0, won |-> 0]
        /\ \A n \in DOMAIN bots \ {cmd.bot} : bots[n] = loaded.bots[n]
        /\ main = "done" => store.bots = bots

\* `reset --name a` on the ledger in which "a" and "b" have played a Game
C18_Witness ==
    /\ cmd.name = "reset" /\ cmd.bot = "a" /\ main = "done"
    /\ loaded = PlayedLedger
    /\ store.bots["a"].played = 0 /\ store.bots["a"].rating = DefaultRating
    /\ store.bots["b"].played = 1 /\ store.bots["b"].rating /= DefaultRating

\* ------------------------------------------------------------- properties of the selection
\* the contestants the selector returned for the match of the run
Selected(m) == matches_to_run[m].contestants

\* C12: the priority names being registered and no more than the count the
\* selector went on with, every priority name is in the list it returned
C12_PriorityIncluded ==
    /\ \A m \in DOMAIN matches_to_run : \A c \in Counts(cmd.count) :
        (/\ Selected(m) \in GenerateContestants(bots, c, cmd.prioritize)
         /\ Range(cmd.prioritize) \subseteq DOMAIN bots
         /\ Len(cmd.prioritize) <= c) =>
            Range(cmd.prioritize) \subseteq Range(Selected(m))
    /\ \A t \in Range(in_buffer) \cup Range(in_queue) :
        (/\ Range(cmd.priority) \subseteq DOMAIN bots
         /\ cmd.number /= NoCount => Len(cmd.priority) <= cmd.number) =>
            Range(cmd.priority) \subseteq Range(t.contestants)

\* `run --count 2 --prioritize a` on the registry a, b, c has selected c and a
C12_Witness ==
    /\ cmd.name = "run"
    /\ DOMAIN bots = Fleet
    /\ cmd.count = 2 /\ cmd.prioritize = <<"a">>
    /\ main = "map"
    /\ Selected(1) = <<"c", "a">>

\* enough bots are registered for the selection: 2, and --count when given
Sufficient ==
    /\ cmd.name = "run"
    /\ Cardinality(DOMAIN bots) >= 2
    /\ cmd.count /= NoCount => Cardinality(DOMAIN bots) >= cmd.count

\* C13: whatever --count and --prioritize options `run` is given, the selector
\* returns no name twice, and at least 2 and at most as many names as there
\* are registered bots.  The registries and priority lists for which the
\* selection is to fail (C14, C15) are left out.
C13_DistinctAndInRange ==
    \A m \in DOMAIN matches_to_run :
        (Sufficient /\ Range(cmd.prioritize) \subseteq DOMAIN bots) =>
        /\ Cardinality(Range(Selected(m))) = Len(Selected(m))
        /\ Len(Selected(m)) >= 2
        /\ Len(Selected(m)) <= Cardinality(DOMAIN bots)

\* C14: with fewer than 2 bots registered, or fewer than --count, the
\* selection fails: no match is generated and none is run
C14_InsufficientBotsFails ==
    (/\ cmd.name = "run"
     /\ main \notin {"cli", "run"}
     /\ \/ Cardinality(DOMAIN bots) < 2
        \/ cmd.count /= NoCount /\ Cardinality(DOMAIN bots) < cmd.count) =>
        /\ main = "crashed"
        /\ matches_to_run = <<>>
        /\ runs = <<>>

\* C15: with a priority name that is not registered the selection fails: no
\* Match of an unregistered name is generated or handed to a worker.  The
\* registries for which the selection is to fail anyway (C14) are left out.
C15_UnknownPriorityFails ==
    (/\ main \notin {"cli", "run"}
     /\ Sufficient
     /\ ~(Range(cmd.prioritize) \subseteq DOMAIN bots)) =>
        /\ main = "crashed"
        /\ matches_to_run = <<>>
        /\ runs = <<>>

\* C25: a count being asked for that is no more than the number of registered
\* bots, and the priority names being registered, the selector returns as many
\* names as the count, also for more priority names than the count
C25_ExactlyCount ==
    /\ \A m \in DOMAIN matches_to_run :
        (/\ cmd.count /= NoCount
         /\ cmd.count <= Cardinality(DOMAIN bots)
         /\ Range(cmd.prioritize) \subseteq DOMAIN bots) =>
            Len(Selected(m)) = cmd.count
    /\ \A t \in Range(in_buffer) \cup Range(in_queue) :
        (/\ cmd.number /= NoCount
         /\ cmd.number <= Cardinality(DOMAIN bots)
         /\ Range(cmd.priority) \subseteq DOMAIN bots) =>
            Len(t.contestants) = cmd.number

\* ------------------------------------------------------------- properties of Match.run
\* C24: every Match that generate_matches has built carries a seed, the one
\* given with --seed when one is, and the command run_command builds for it
\* passes a seed to the engine with --seed
C24_SeedPassed ==
    (cmd.name = "run" /\ main \notin {"cli", "run"}) =>
        \A m \in DOMAIN matches_to_run :
            /\ matches_to_run[m].seed \in 0..MaxSeed
            /\ (cmd.seed /= NoSeed /\ runs[m] = 0) => matches_to_run[m].seed = cmd.seed
            /\ (runs[m] > 0 /\ m \notin raised) => argv[m] /= NoSeed

\* the Games Match.run has returned: those the workers hold and those appended
Returned ==
    {thread[w].game : w \in {v \in Workers : thread[v].pc \notin {"idle", "run", "engine"}}}
        \cup Range(BatchGames)

\* C19: of every Game Match.run returns, the keys of Result.scores and the
\* keys of Result.terminated are the contestants of the Match: an answer of the
\* engine with entries for more or fewer yields no Game
C19_ResultKeysAreContestants ==
    \A g \in Returned :
        /\ Range(g.names) = Range(g.contestants)
        /\ g.terminated = Range(g.contestants)

\* ------------------------------------------------------------- properties of manager.py
\* C20: every result a worker had put on out_queue when the KeyboardInterrupt
\* arrived has been applied by update_rankings, once, when
\* run_parallel_matches has returned, and the count it reports is the number
\* of results applied
C20_InterruptAppliesPutResults ==
    (cmd.name = "manager.py run" /\ intr.seen /\ main \in {"save", "write", "done"}) =>
        /\ \A m \in intr.finished :
              Cardinality({i \in DOMAIN applied : applied[i].match = m}) = 1
        /\ counted = Len(applied)

\* C23: run_parallel_matches that is not interrupted comes to its end: every
\* worker process ends and the parent's joins return, no worker waiting for
\* ever in in_queue.get()
C23_JoinReturns == (main = "join") ~> (main /= "join")

\* C22: in `run`, while Manager.save executes no worker thread is inside
\* add_game or on its way to it: every worker has finished what it took
C22_SaveAfterWorkers ==
    (cmd.name = "run" /\ main \in {"save", "write"}) =>
        \A w \in Pool : thread[w].pc = "idle"

\* the Games of the stored ledger st that list n as a contestant, and those
\* of them in which the rank of n is 1
GamesOf(st, n) ==
    {i \in DOMAIN st.games : n \in Range(st.games[i].contestants)}
GamesWonBy(st, n) ==
    {i \in GamesOf(st, n) :
        \E j \in DOMAIN st.games[i].names :
            st.games[i].names[j] = n /\ st.games[i].ranks[j] = 1}

\* C21: in every ledger the commands have stored, `played` of each registered
\* Bot is the number of stored Games that list it as a contestant, and `won`
\* the number of those in which its rank is 1
C21_LedgerConsistent ==
    (Script(cmd) = "cli" /\ store.complete) =>
        \A n \in DOMAIN store.bots :
            /\ store.bots[n].played = Cardinality(GamesOf(store, n))
            /\ store.bots[n].won = Cardinality(GamesWonBy(store, n))
====
